---- MODULE Spec2Model ----
(***************************************************************************)
(* Model of the review acquisition service (andreetks/modelScrappy):       *)
(*   - api.py       analyze_reviews: cache check, scrape, fallback, NLP,   *)
(*                  persist                                                *)
(*   - database.py  the analysis_cache table, get_cached_analysis,         *)
(*                  save_analysis                                          *)
(*   - nlp.py       ReviewAnalyzer.analyze, as an operator and by steps    *)
(*   - scraper.py   GoogleMapsScraper.scrape: browser launch, session      *)
(*                  restore (load_cookies), the scroll loop, the except    *)
(*                  and finally clauses; login_google                      *)
(* Units: a rating is kept in tenths of a star (45 is 4.5), an average     *)
(* rating in hundredths, a confidence in ten-thousandths (10000 is 1.0).   *)
(* Time is a counter, now, that ticks once per request; scraping_date and   *)
(* the row timestamps are readings of it.                                  *)
(***************************************************************************)
EXTENDS Integers, Sequences, FiniteSets, TLC

\* ------------------------------------------------------------- bounds
\* Requests started in one behaviour.
MaxRequests == 3
\* Records one extraction hands to the endpoint.
MaxRecs == 2

\* Worker processes serving requests (uvicorn threadpool workers).
Procs == {1, 2}

\* ------------------------------------------------------------- helpers
\* {**d, **e}: the dict d updated with the keys of e.
Merge(d, e) ==
  [k \in DOMAIN d \cup DOMAIN e |-> IF k \in DOMAIN e THEN e[k] ELSE d[k]]

\* All sequences over S of length 0..n.
SeqsUpTo(S, n) == UNION {[1..k -> S] : k \in 0..n}

\* round(a / b) for a >= 0, b > 0 (no tie arises for the values modelled).
RoundDiv(a, b) == (2 * a + b) \div (2 * b)

\* ------------------------------------------------------------- requests
\* Two request URLs that differ only by a trailing slash.
Urls == {"https://maps.app.goo.gl/a", "https://maps.app.goo.gl/a/"}

\* hashlib.md5(maps_url.encode()).hexdigest() of the URLs modelled.
Md5(u) ==
  CASE u = "https://maps.app.goo.gl/a"  -> "1e656ab1c4df02beb31b05ba41ec4f74"
    [] u = "https://maps.app.goo.gl/a/" -> "763ce918c8ea9172a995d85ef980bae5"

\* AnalysisRequest: maps_url, forceUpdate, limit.
\* The limits modelled: none, and one that admits every extraction modelled.
Limits == {0, MaxRecs}

Requests == [maps_url : Urls, forceUpdate : BOOLEAN, limit : Limits]

NoRequest == [none |-> TRUE]

\* ------------------------------------------------------------- records
\* What _extract_business_name can yield for the pages modelled.
BusinessNames == {"Cafe Sol", "Unknown Business"}

\* The parsed fields of the review blocks the endpoint-level model draws
\* from; extractions differ there in business name, length and date.
ApiReviews ==
  { [username |-> "Ana", rating |-> 50, review_text |-> "Muy bueno"] }

\* The record scrape() appends for a block (scraper.py: record = {...}).
Record(bn, f, date) ==
  [business_name |-> bn, username |-> f.username, rating |-> f.rating,
   review_text |-> f.review_text, source |-> "Google Maps",
   scraping_date |-> date]

\* ------------------------------------------------------------- nlp.py
\* What analyzer.predict does on a text: raise, or an output with the
\* largest class probability.
PredictOutcomes ==
  { [raises |-> FALSE, output |-> "POS", score |-> 9876],
    [raises |-> TRUE,  output |-> "NEU", score |-> 0] }

\* The texts long enough to reach the model.
LongTexts == {f.review_text : f \in {g \in ApiReviews : Len(g.review_text) > 2}}

\* A classifier behaviour: its outcome on every text.
Models == [LongTexts -> PredictOutcomes]

\* The test without its length part.
InvokesModelNonEmpty(text) == text # ""

\* if text and len(text) > 2
InvokesModel(text) == text # "" /\ Len(text) > 2

\* The sentiment and confidence analyze() writes into one review.
Sentiment(r, model) ==
  IF InvokesModel(r.review_text)
  THEN IF model[r.review_text].raises
       THEN [sentiment |-> "ERROR", confidence |-> 0]
       ELSE [sentiment |-> model[r.review_text].output,
             confidence |-> model[r.review_text].score]
  ELSE [sentiment |-> "NEU", confidence |-> 10000]

AnalyzedReview(r, model) == Merge(r, Sentiment(r, model))

\* summary[label]: reviews counted in bucket label.
CountLabel(reviews, model, label) ==
  Cardinality({i \in 1..Len(reviews) :
                 Sentiment(reviews[i], model).sentiment = label})

RECURSIVE SumRatings(_)
SumRatings(reviews) ==
  IF reviews = <<>> THEN 0
  ELSE (IF Head(reviews).rating # 0 THEN Head(reviews).rating ELSE 0)
       + SumRatings(Tail(reviews))

ValidRatings(reviews) ==
  Cardinality({i \in 1..Len(reviews) : reviews[i].rating # 0})

\* round(total_rating / valid_ratings, 2) if valid_ratings > 0 else 0
AverageRating(reviews) ==
  IF ValidRatings(reviews) > 0
  THEN RoundDiv(10 * SumRatings(reviews), ValidRatings(reviews))
  ELSE 0

\* ReviewAnalyzer.analyze(reviews)
Analyze(reviews, model) ==
  [reviews |-> [i \in 1..Len(reviews) |-> AnalyzedReview(reviews[i], model)],
   sentiment_summary |-> [POS |-> CountLabel(reviews, model, "POS"),
                          NEG |-> CountLabel(reviews, model, "NEG"),
                          NEU |-> CountLabel(reviews, model, "NEU")],
   average_rating |-> AverageRating(reviews),
   total_reviews |-> Len(reviews)]

\* ------------------------------------------------------------- database.py
\* "No row": what .first() returns on an empty result, and the falsy value
\* the endpoint tests with "if cached_entry".
NoRow == [id |-> 0]

Truthy(row) == row.id # 0

RowsFor(table, h) == {r \in table : r.url_hash = h}

\* The query without its filter on url_hash.
GetCachedAnalysisAnyKey(table, h) ==
  IF table = {} THEN NoRow
  ELSE CHOOSE r \in table : \A s \in table : r.id <= s.id

\* db.query(AnalysisCache).filter(url_hash == h).first()
GetCachedAnalysis(table, h) ==
  IF RowsFor(table, h) = {} THEN NoRow
  ELSE CHOOSE r \in RowsFor(table, h) : \A s \in RowsFor(table, h) : r.id <= s.id

\* The column without unique=True: no INSERT is refused.
UniqueViolationOff(table, h) == FALSE

\* url_hash = Column(String, unique=True): the INSERT of a second row with
\* the same url_hash raises IntegrityError.
UniqueViolation(table, h) == RowsFor(table, h) # {}

\* The unit of work save_analysis leaves in the session before commit.
NoPending == [op |-> "none"]

\* save_analysis with the update branch touching only updated_at.
PendingKeepsOld(existing, h, url, bn, data, t) ==
  IF Truthy(existing)
  THEN [op |-> "update", id |-> existing.id,
        analysis_json |-> existing.analysis_json,
        business_name |-> existing.business_name, updated_at |-> t]
  ELSE [op |-> "insert", url_hash |-> h, maps_url |-> url,
        business_name |-> bn, analysis_json |-> data]

\* save_analysis up to db.add: the attribute writes on the row found, or the
\* new AnalysisCache object.
PendingWrite(existing, h, url, bn, data, t) ==
  IF Truthy(existing)
  THEN [op |-> "update", id |-> existing.id, analysis_json |-> data,
        business_name |-> bn, updated_at |-> t]
  ELSE [op |-> "insert", url_hash |-> h, maps_url |-> url,
        business_name |-> bn, analysis_json |-> data]

\* analysis_json = Column(JSON): the value bound on write is serialised
\* (json.dumps) to a document, an unordered collection of name/value members.
JsonDumps(d) == {<<k, d[k]>> : k \in DOMAIN d}

\* What a later read of the column deserialises (json.loads): the object
\* with one key per member name of the document.
JsonLoads(doc) ==
  [k \in {m[1] : m \in doc} |-> (CHOOSE m \in doc : m[1] = k)[2]]

\* db.commit() of that unit of work on the committed table: the flush's
\* INSERT or UPDATE, or the table unchanged when the INSERT violates the
\* unique constraint (IntegrityError, rolled back by save_analysis).
CommitRaises(table, pend) ==
  pend.op = "insert" /\ UniqueViolation(table, pend.url_hash)

\* A commit whose INSERT evicts the rows of the other keys.
CommittedEvicts(table, pend, newid, t) ==
  IF pend.op = "insert"
  THEN IF UniqueViolation(table, pend.url_hash) THEN table
       ELSE {[id |-> newid, url_hash |-> pend.url_hash,
              maps_url |-> pend.maps_url,
              business_name |-> pend.business_name,
              analysis_json |-> JsonLoads(JsonDumps(pend.analysis_json)),
              created_at |-> t, updated_at |-> t]}
  ELSE {IF r.id = pend.id
        THEN [r EXCEPT !.analysis_json = JsonLoads(JsonDumps(pend.analysis_json)),
                       !.business_name = pend.business_name,
                       !.updated_at = pend.updated_at]
        ELSE r : r \in table}

\* A commit whose UPDATE also rewrites created_at.
CommittedResetsCreated(table, pend, newid, t) ==
  IF pend.op = "insert"
  THEN IF UniqueViolation(table, pend.url_hash) THEN table
       ELSE table \cup
            {[id |-> newid, url_hash |-> pend.url_hash,
              maps_url |-> pend.maps_url,
              business_name |-> pend.business_name,
              analysis_json |-> JsonLoads(JsonDumps(pend.analysis_json)),
              created_at |-> t, updated_at |-> t]}
  ELSE {IF r.id = pend.id
        THEN [r EXCEPT !.analysis_json = JsonLoads(JsonDumps(pend.analysis_json)),
                       !.business_name = pend.business_name,
                       !.created_at = t,
                       !.updated_at = pend.updated_at]
        ELSE r : r \in table}

\* The rows after the commit: created_at and updated_at take their column
\* defaults on INSERT; the UPDATE writes the three attributes assigned.
Committed(table, pend, newid, t) ==
  IF pend.op = "insert"
  THEN IF UniqueViolation(table, pend.url_hash) THEN table
       ELSE table \cup
            {[id |-> newid, url_hash |-> pend.url_hash,
              maps_url |-> pend.maps_url,
              business_name |-> pend.business_name,
              analysis_json |-> JsonLoads(JsonDumps(pend.analysis_json)),
              created_at |-> t, updated_at |-> t]}
  ELSE {IF r.id = pend.id
        THEN [r EXCEPT !.analysis_json = JsonLoads(JsonDumps(pend.analysis_json)),
                       !.business_name = pend.business_name,
                       !.updated_at = pend.updated_at]
        ELSE r : r \in table}

\* ------------------------------------------------------------- api.py
NoPayload == [none |-> TRUE]

NoResponse == [status |-> 0, body |-> NoPayload]

\* return {**cached_entry.analysis_json, "cached": True}
CacheResponse(row) ==
  [status |-> 200, body |-> Merge(row.analysis_json, [cached |-> TRUE])]

\* The fallback return without its fallback_mode mark.
FallbackResponseUnmarked(row) ==
  [status |-> 200, body |-> Merge(row.analysis_json, [cached |-> TRUE])]

\* return {**fallback_entry.analysis_json, "cached": True, "fallback_mode": True}
FallbackResponse(row) ==
  [status |-> 200,
   body |-> Merge(row.analysis_json, [cached |-> TRUE, fallback_mode |-> TRUE])]

\* raise HTTPException(status_code=404, ...)
NotFoundResponse ==
  [status |-> 404,
   body |-> [detail |-> "No se encontraron resenas y no hay respaldo en la base de datos."]]

\* raise HTTPException(status_code=500, detail=str(e))
ServerErrorResponse == [status |-> 500, body |-> [detail |-> "str(e)"]]

\* The name resolution ignoring the records.
BusinessNameOfUnknown(raw) == "Unknown"

\* business_name = raw_reviews[0].get("business_name") if raw_reviews else "Unknown"
BusinessNameOf(raw) == IF raw # <<>> THEN raw[1].business_name ELSE "Unknown"

\* final_response = {...}
FinalResponse(raw, model) ==
  [business_name |-> BusinessNameOf(raw),
   total_reviews |-> Analyze(raw, model).total_reviews,
   sentiment_summary |-> Analyze(raw, model).sentiment_summary,
   average_rating |-> Analyze(raw, model).average_rating,
   reviews |-> Analyze(raw, model).reviews,
   cached |-> FALSE]

VARIABLES
  table,            \* committed rows of analysis_cache
  next_id,          \* the next value of the id sequence
  now,              \* datetime.utcnow()
  n_requests,       \* requests started so far
  pc,               \* pc[p]: where worker p is in analyze_reviews
  req,              \* req[p]: the AnalysisRequest
  cached_entry,     \* cached_entry[p] / fallback_entry[p]: the row looked up
  raw_reviews,      \* raw_reviews[p]: what scraper.scrape returned
  final_response,   \* final_response[p]
  pending,          \* pending[p]: the session's unit of work
  response,         \* response[p]: what the endpoint returns or raises
  scrape_calls,     \* scrape_calls[p]: scraper.scrape calls of this request
  had_entry,        \* had_entry[p]: the key had a row when the request began
  prior,            \* prior[p]: acquired[url] when the request began
  acquired,         \* acquired[u]: payload of the latest FRESH result for u
  table_before,     \* table_before[p]: the table when the request began
  faulted,          \* faulted[p]: a store operation of this request raised
  \* GoogleMapsScraper.scrape, one run:
  s_pc,             \* where the run is
  max_reviews,      \* self.max_reviews
  business_name,    \* business_name
  reviews_data,     \* self.reviews_data
  processed_ids,    \* processed_ids
  last_count,       \* last_count
  retries,          \* retries
  elements,         \* elements: the blocks enumerated in this iteration
  idx,              \* position of the for loop in elements (from 1)
  result,           \* what scrape(return_data=True) returned
  block_of,         \* block_of[i]: rendered text reviews_data[i] came from
  stagnant,         \* completed iterations in a row that appended nothing
  browser,          \* the chromium process: "none", "open" or "closed"
  artifact,         \* what load_cookies found at cookies.json
  restored,         \* what load_cookies returned
  fault,            \* the call of scrape() that raised, or "none"
  raising,          \* an exception is on its way out of scrape()
  container,        \* outcome of the wait for the review container
  failed_of,        \* <<i, fields>>: fields whose parsing raised for record i
  expanded,         \* collapsed texts whose "show more" button was clicked
  \* ReviewAnalyzer.analyze, one call:
  n_pc,             \* where the call is
  n_reviews,        \* reviews: the list passed in
  n_model,          \* what self.analyzer.predict does on each text
  n_i,              \* position of the for loop in reviews (from 1)
  results,          \* results
  summary,          \* summary
  total_rating,     \* total_rating (tenths of a star)
  valid_ratings,    \* valid_ratings
  predict_calls,    \* predict_calls[i]: predict calls made for reviews[i]
  analysis,         \* what analyze() returned
  \* GoogleMapsScraper.login_google, one call:
  l_pc,             \* where the call is
  email,            \* self.email: os.environ.get("GOOGLE_EMAIL")
  password,         \* self.password: os.environ.get("GOOGLE_PASSWORD")
  page_log,         \* the operations performed on the page, in order
  l_snap,           \* the snapshot about to be captured
  l_after,          \* what follows that snapshot
  l_result,         \* what login_google returned
  l_guard,          \* the guard of the flow that failed, or "none"
  l_signal,         \* what the page showed after the password was submitted
  l_lost            \* the snapshot whose capture raised, or "none"

apiVars == <<table, next_id, now, n_requests, pc, req, cached_entry,
             raw_reviews, final_response, pending, response, scrape_calls,
             had_entry, prior, acquired, table_before, faulted>>

brwVars == <<browser, artifact, restored, fault, raising>>

histVars == <<container, failed_of, expanded>>

scrVars == <<s_pc, max_reviews, business_name, reviews_data, processed_ids,
             last_count, retries, elements, idx, result, block_of, stagnant,
             brwVars, histVars>>

nlpVars == <<n_pc, n_reviews, n_model, n_i, results, summary, total_rating,
             valid_ratings, predict_calls, analysis>>

loginVars == <<l_pc, email, password, page_log, l_snap, l_after, l_result,
               l_guard, l_signal, l_lost>>

vars == <<apiVars, scrVars, nlpVars, loginVars>>

InitWorkers ==
  /\ now = 0
  /\ n_requests = 0
  /\ pc = [p \in Procs |-> "idle"]
  /\ req = [p \in Procs |-> NoRequest]
  /\ cached_entry = [p \in Procs |-> NoRow]
  /\ raw_reviews = [p \in Procs |-> <<>>]
  /\ final_response = [p \in Procs |-> NoPayload]
  /\ pending = [p \in Procs |-> NoPending]
  /\ response = [p \in Procs |-> NoResponse]
  /\ scrape_calls = [p \in Procs |-> 0]
  /\ had_entry = [p \in Procs |-> FALSE]
  /\ prior = [p \in Procs |-> NoPayload]
  /\ table_before = [p \in Procs |-> {}]
  /\ faulted = [p \in Procs |-> FALSE]

\* GoogleMapsScraper.__init__: reviews_data = [], nothing run yet.
InitScraper ==
  /\ s_pc = "new"
  /\ max_reviews = 0
  /\ business_name = "Unknown Business"
  /\ reviews_data = <<>>
  /\ processed_ids = {}
  /\ last_count = 0
  /\ retries = 0
  /\ elements = <<>>
  /\ idx = 1
  /\ result = <<>>
  /\ block_of = <<>>
  /\ stagnant = 0
  /\ browser = "none"
  /\ artifact = "unread"
  /\ restored = FALSE
  /\ fault = "none"
  /\ raising = FALSE
  /\ container = "not awaited"
  /\ failed_of = {}
  /\ expanded = {}

\* The locals of analyze() before its first statement.
AnalyzerLocals ==
  /\ n_i = 1
  /\ results = <<>>
  /\ summary = [POS |-> 0, NEG |-> 0, NEU |-> 0]
  /\ total_rating = 0
  /\ valid_ratings = 0
  /\ predict_calls = <<>>
  /\ analysis = NoPayload

\* analyze() has not been called.
InitAnalyzer ==
  /\ n_pc = "idle"
  /\ n_reviews = <<>>
  /\ n_model = [t \in {} |-> 0]
  /\ AnalyzerLocals

\* os.environ.get(name): None when the variable is not set, else its value.
Unset == [set |-> FALSE, value |-> ""]

\* The locals of login_google() before its first statement.
LoginLocals ==
  /\ page_log = <<>>
  /\ l_snap = "none"
  /\ l_after = "none"
  /\ l_result = "none"
  /\ l_guard = "none"
  /\ l_signal = "none"
  /\ l_lost = "none"

\* login_google() has not been called.
InitLogin ==
  /\ l_pc = "idle"
  /\ email = Unset
  /\ password = Unset
  /\ LoginLocals

Init ==
  /\ table = {}
  /\ next_id = 1
  /\ acquired = [u \in Urls |-> NoPayload]
  /\ InitWorkers
  /\ InitScraper
  /\ InitAnalyzer
  /\ InitLogin

\* A request arrives at worker p: db = SessionLocal().
Begin(p, r) ==
  /\ pc[p] = "idle"
  /\ n_requests < MaxRequests
  /\ n_requests' = n_requests + 1
  /\ now' = now + 1
  /\ pc' = [pc EXCEPT ![p] = "check_cache"]
  /\ req' = [req EXCEPT ![p] = r]
  /\ had_entry' = [had_entry EXCEPT ![p] = RowsFor(table, Md5(r.maps_url)) # {}]
  /\ prior' = [prior EXCEPT ![p] = acquired[r.maps_url]]
  /\ table_before' = [table_before EXCEPT ![p] = table]
  /\ faulted' = [faulted EXCEPT ![p] = FALSE]
  /\ UNCHANGED <<table, next_id, acquired, cached_entry, raw_reviews,
                 final_response, pending, response, scrape_calls,
                 scrVars, nlpVars, loginVars>>

\* The endpoint without its cache short-circuit.
ServesFromCacheNever(r, row) == FALSE

\* 1. if not req.forceUpdate: cached_entry = get_cached_analysis(...);
\*    if cached_entry: return {**cached_entry.analysis_json, "cached": True}
ServesFromCache(r, row) == ~r.forceUpdate /\ Truthy(row)

CheckCache(p) ==
  /\ pc[p] = "check_cache"
  /\ LET row == IF req[p].forceUpdate THEN NoRow
                ELSE GetCachedAnalysis(table, Md5(req[p].maps_url))
     IN /\ cached_entry' = [cached_entry EXCEPT ![p] = row]
        /\ IF ServesFromCache(req[p], row)
           THEN /\ response' = [response EXCEPT ![p] = CacheResponse(row)]
                /\ pc' = [pc EXCEPT ![p] = "done"]
           ELSE /\ pc' = [pc EXCEPT ![p] = "scrape"]
                /\ UNCHANGED response
  /\ UNCHANGED <<table, next_id, now, n_requests, req, raw_reviews,
                 final_response, pending, scrape_calls, had_entry, prior,
                 acquired, table_before, faulted,
                 scrVars, nlpVars, loginVars>>

\* 2. raw_reviews = scraper.scrape(return_data=True): at most limit records
\*    of one page, all carrying the page's business name.
Scrape(p, bn, fields) ==
  /\ pc[p] = "scrape"
  /\ Len(fields) <= req[p].limit
  /\ raw_reviews' = [raw_reviews EXCEPT ![p] =
                       [i \in 1..Len(fields) |-> Record(bn, fields[i], now)]]
  /\ scrape_calls' = [scrape_calls EXCEPT ![p] = @ + 1]
  /\ pc' = [pc EXCEPT ![p] = "scraped"]
  /\ UNCHANGED <<table, next_id, now, n_requests, req, cached_entry,
                 final_response, pending, response, had_entry, prior,
                 acquired, table_before, faulted,
                 scrVars, nlpVars, loginVars>>

\* A fallback lookup with a last-resort tier: the key's row, else any row.
FallbackEntryAny(tbl, h) ==
  IF RowsFor(tbl, h) # {} THEN GetCachedAnalysis(tbl, h)
  ELSE IF tbl = {} THEN NoRow
  ELSE CHOOSE r \in tbl : \A s \in tbl : r.id <= s.id

\* fallback_entry = get_cached_analysis(db, url_hash)
FallbackEntry(tbl, h) == GetCachedAnalysis(tbl, h)

\* 3. if not raw_reviews: fallback_entry = get_cached_analysis(db, url_hash);
\*    return it marked as fallback, or raise the 404.
Fallback(p) ==
  /\ pc[p] = "scraped"
  /\ raw_reviews[p] = <<>>
  /\ LET row == FallbackEntry(table, Md5(req[p].maps_url))
     IN /\ cached_entry' = [cached_entry EXCEPT ![p] = row]
        /\ response' = [response EXCEPT ![p] =
                          IF Truthy(row) THEN FallbackResponse(row)
                          ELSE NotFoundResponse]
  /\ pc' = [pc EXCEPT ![p] = "done"]
  /\ UNCHANGED <<table, next_id, now, n_requests, req, raw_reviews,
                 final_response, pending, scrape_calls, had_entry, prior,
                 acquired, table_before, faulted,
                 scrVars, nlpVars, loginVars>>

\* 4. analysis_result = nlp.analyze(raw_reviews); final_response = {...}
Enrich(p, model) ==
  /\ pc[p] = "scraped"
  /\ raw_reviews[p] # <<>>
  /\ final_response' = [final_response EXCEPT ![p] =
                          FinalResponse(raw_reviews[p], model)]
  /\ pc' = [pc EXCEPT ![p] = "save"]
  /\ UNCHANGED <<table, next_id, now, n_requests, req, cached_entry,
                 raw_reviews, pending, response, scrape_calls, had_entry,
                 prior, acquired, table_before, faulted,
                 scrVars, nlpVars, loginVars>>

\* 5. save_analysis, lines 67-82: existing = get_cached_analysis(...), then
\*    the attribute writes or db.add(new_entry).
SavePrepare(p) ==
  /\ pc[p] = "save"
  /\ pending' = [pending EXCEPT ![p] =
       PendingWrite(GetCachedAnalysis(table, Md5(req[p].maps_url)),
                    Md5(req[p].maps_url), req[p].maps_url,
                    final_response[p].business_name, final_response[p], now)]
  /\ pc' = [pc EXCEPT ![p] = "commit"]
  /\ UNCHANGED <<table, next_id, now, n_requests, req, cached_entry,
                 raw_reviews, final_response, response, scrape_calls,
                 had_entry, prior, acquired, table_before, faulted,
                 scrVars, nlpVars, loginVars>>

\* save_analysis, lines 84-90: db.commit() (an IntegrityError is caught and
\* rolled back), then analyze_reviews returns final_response.
Commit(p) ==
  /\ pc[p] = "commit"
  /\ table' = Committed(table, pending[p], next_id, now)
  /\ next_id' = IF pending[p].op = "insert" THEN next_id + 1 ELSE next_id
  /\ faulted' = [faulted EXCEPT ![p] = CommitRaises(table, pending[p])]
  /\ pending' = [pending EXCEPT ![p] = NoPending]
  /\ response' = [response EXCEPT ![p] =
                    [status |-> 200, body |-> final_response[p]]]
  /\ acquired' = [acquired EXCEPT ![req[p].maps_url] = final_response[p]]
  /\ pc' = [pc EXCEPT ![p] = "done"]
  /\ UNCHANGED <<now, n_requests, req, cached_entry, raw_reviews,
                 final_response, scrape_calls, had_entry, prior,
                 table_before,
                 scrVars, nlpVars, loginVars>>

\* finally: db.close(); the response leaves the worker.
Finish(p) ==
  /\ pc[p] = "done"
  /\ pc' = [pc EXCEPT ![p] = "idle"]
  /\ req' = [req EXCEPT ![p] = NoRequest]
  /\ cached_entry' = [cached_entry EXCEPT ![p] = NoRow]
  /\ raw_reviews' = [raw_reviews EXCEPT ![p] = <<>>]
  /\ final_response' = [final_response EXCEPT ![p] = NoPayload]
  /\ response' = [response EXCEPT ![p] = NoResponse]
  /\ scrape_calls' = [scrape_calls EXCEPT ![p] = 0]
  /\ had_entry' = [had_entry EXCEPT ![p] = FALSE]
  /\ prior' = [prior EXCEPT ![p] = NoPayload]
  /\ table_before' = [table_before EXCEPT ![p] = {}]
  /\ faulted' = [faulted EXCEPT ![p] = FALSE]
  /\ UNCHANGED <<table, next_id, now, n_requests, pending, acquired,
                 scrVars, nlpVars, loginVars>>

\* The steps of analyze_reviews on worker p, with what the page and the
\* classifier may do.
Serve(p) ==
  \/ CheckCache(p)
  \/ \E bn \in BusinessNames, fields \in SeqsUpTo(ApiReviews, MaxRecs) :
       Scrape(p, bn, fields)
  \/ Fallback(p)
  \/ \E model \in Models : Enrich(p, model)
  \/ SavePrepare(p)
  \/ Commit(p)
  \/ Finish(p)

\* One worker, one request at a time.
Next ==
  \/ \E r \in Requests : Begin(1, r)
  \/ Serve(1)

Spec == Init /\ [][Next]_vars

\* ------------------------------------------------------------- concurrency
\* A table the service can have built before two requests race: empty, or
\* holding the row of one earlier acquisition.
SeedUrl == "https://maps.app.goo.gl/a"

SeedPayload ==
  FinalResponse(<<Record("Cafe Sol", CHOOSE f \in ApiReviews : TRUE, 0)>>,
                CHOOSE m \in Models : \A t \in LongTexts : ~m[t].raises)

SeedTable ==
  Committed({}, PendingWrite(NoRow, Md5(SeedUrl), SeedUrl,
                             SeedPayload.business_name, SeedPayload, 0), 1, 0)

InitConc ==
  /\ \E seeded \in BOOLEAN :
       /\ table = IF seeded THEN SeedTable ELSE {}
       /\ next_id = IF seeded THEN 2 ELSE 1
       /\ acquired = [u \in Urls |-> IF seeded /\ u = SeedUrl
                                     THEN SeedPayload ELSE NoPayload]
  /\ InitWorkers
  /\ InitScraper
  /\ InitAnalyzer
  /\ InitLogin

\* Two workers, each request served by either, interleaved at the store
\* operations; one request per worker is in the race.
NextConc ==
  \E p \in Procs :
    \/ \E r \in Requests : n_requests < Cardinality(Procs) /\ Begin(p, r)
    \/ Serve(p)

SpecConc == InitConc /\ [][NextConc]_vars

\* ------------------------------------------------------------- store faults
\* save_analysis line 67: the lookup query raises (the connection is lost).
\* The call is outside save_analysis's try, so the exception reaches
\* analyze_reviews's "except Exception" and becomes the 500.
SaveLookupFails(p) ==
  /\ pc[p] = "save"
  /\ faulted' = [faulted EXCEPT ![p] = TRUE]
  /\ response' = [response EXCEPT ![p] = ServerErrorResponse]
  /\ pc' = [pc EXCEPT ![p] = "done"]
  /\ UNCHANGED <<table, next_id, now, n_requests, req, cached_entry,
                 raw_reviews, final_response, pending, scrape_calls,
                 had_entry, prior, acquired, table_before,
                 scrVars, nlpVars, loginVars>>

\* save_analysis lines 84-90: db.commit() raises; the except clause rolls the
\* unit of work back and prints, and analyze_reviews returns final_response.
CommitFails(p) ==
  /\ pc[p] = "commit"
  /\ faulted' = [faulted EXCEPT ![p] = TRUE]
  /\ pending' = [pending EXCEPT ![p] = NoPending]
  /\ response' = [response EXCEPT ![p] =
                    [status |-> 200, body |-> final_response[p]]]
  /\ acquired' = [acquired EXCEPT ![req[p].maps_url] = final_response[p]]
  /\ pc' = [pc EXCEPT ![p] = "done"]
  /\ UNCHANGED <<table, next_id, now, n_requests, req, cached_entry,
                 raw_reviews, final_response, scrape_calls, had_entry, prior,
                 table_before,
                 scrVars, nlpVars, loginVars>>

\* scraper.scrape(return_data=True) raises (the browser cannot be launched,
\* or an exception leaves scrape()): "except Exception" turns it into the 500.
ScrapeFails(p) ==
  /\ pc[p] = "scrape"
  /\ scrape_calls' = [scrape_calls EXCEPT ![p] = @ + 1]
  /\ faulted' = [faulted EXCEPT ![p] = TRUE]
  /\ response' = [response EXCEPT ![p] = ServerErrorResponse]
  /\ pc' = [pc EXCEPT ![p] = "done"]
  /\ UNCHANGED <<table, next_id, now, n_requests, req, cached_entry,
                 raw_reviews, final_response, pending, had_entry, prior,
                 acquired, table_before,
                 scrVars, nlpVars, loginVars>>

\* get_nlp_engine() or nlp.analyze(raw_reviews) raises (the model cannot be
\* loaded): "except Exception" turns it into the 500.
EngineFails(p) ==
  /\ pc[p] = "scraped"
  /\ raw_reviews[p] # <<>>
  /\ faulted' = [faulted EXCEPT ![p] = TRUE]
  /\ response' = [response EXCEPT ![p] = ServerErrorResponse]
  /\ pc' = [pc EXCEPT ![p] = "done"]
  /\ UNCHANGED <<table, next_id, now, n_requests, req, cached_entry,
                 raw_reviews, final_response, pending, scrape_calls,
                 had_entry, prior, acquired, table_before,
                 scrVars, nlpVars, loginVars>>

\* One worker, with an extraction, an enrichment and a store that may fail.
NextFault ==
  \/ \E r \in Requests : Begin(1, r)
  \/ Serve(1)
  \/ ScrapeFails(1)
  \/ EngineFails(1)
  \/ SaveLookupFails(1)
  \/ CommitFails(1)

SpecFault == Init /\ [][NextFault]_vars

\* ------------------------------------------------------------- scraper.py
\* Blocks on the page at most, per enumeration of the review container class.
MaxVisible == 2
\* Largest max_reviews modelled.
MaxLimit == 2

\* max_retries = 5
max_retries == 5

\* The rendered texts (el.inner_text()) of the review blocks a page may show.
BlockTexts ==
  { "Ana | 5 estrellas | Muy bueno", "Luis | 3 estrellas | ok", "Eva" }

\* An element whose inner_text() raises (detached while the list reloads).
Unreadable == "<inner_text raises>"

\* The rendered texts of the blocks that show a long review collapsed, with
\* a "Ver mas" / "See more" / "Mas" button.
CollapsedTexts == { "Rosa | 4 estrellas | Excelente lugar... | Mas" }

\* The text such a block renders once its button was clicked.
Expand(t) ==
  CASE t = "Rosa | 4 estrellas | Excelente lugar... | Mas"
         -> "Rosa | 4 estrellas | Excelente lugar, volveremos"

\* _extract_username, _extract_rating, _extract_text on those blocks.
BlockFields(t) ==
  CASE t = "Ana | 5 estrellas | Muy bueno"
         -> [username |-> "Ana", rating |-> 50, review_text |-> "Muy bueno"]
    [] t = "Luis | 3 estrellas | ok"
         -> [username |-> "Luis", rating |-> 30, review_text |-> "ok"]
    [] t = "Eva"
         -> [username |-> "Eva", rating |-> 0, review_text |-> ""]
    [] t = "Rosa | 4 estrellas | Excelente lugar... | Mas"
         -> [username |-> "Rosa", rating |-> 40,
             review_text |-> "Excelente lugar..."]
    [] t = "Rosa | 4 estrellas | Excelente lugar, volveremos"
         -> [username |-> "Rosa", rating |-> 40,
             review_text |-> "Excelente lugar, volveremos"]

\* content_hash = hash(text_content): equal texts have equal hashes, and
\* the texts modelled do not collide.
ContentHash(t) ==
  CASE t = "Ana | 5 estrellas | Muy bueno" -> 7301
    [] t = "Luis | 3 estrellas | ok"       -> 7302
    [] t = "Eva"                           -> 7303
    [] t = "Rosa | 4 estrellas | Excelente lugar... | Mas"    -> 7304
    [] t = "Rosa | 4 estrellas | Excelente lugar, volveremos" -> 7305

\* max_reviews is any int the caller passes (AnalysisRequest.limit and
\* --limit are unvalidated): a negative one, zero, and the positive ones.
ScrapeLimits == -1..MaxLimit

\* What page.locator(...).all() may return in one iteration.
Enumerations == SeqsUpTo(BlockTexts \cup {Unreadable}, MaxVisible)

\* The states cookies.json can be in when load_cookies runs: no file, a file
\* json.load cannot parse, cookies context.add_cookies refuses, good cookies.
Artifacts == {"missing", "malformed", "rejected", "valid"}

\* with sync_playwright() as p: browser = p.chromium.launch(...)
Launch ==
  /\ s_pc = "new"
  /\ browser' = "open"
  /\ s_pc' = "context"
  /\ UNCHANGED <<max_reviews, business_name, reviews_data, processed_ids,
                 last_count, retries, elements, idx, result, block_of,
                 stagnant, artifact, restored, fault, raising,
                 apiVars, nlpVars, loginVars, histVars>>

\* context = browser.new_context(...); context.add_init_script(...)
NewContext ==
  /\ s_pc = "context"
  /\ s_pc' = "cookies"
  /\ UNCHANGED <<max_reviews, business_name, reviews_data, processed_ids,
                 last_count, retries, elements, idx, result, block_of,
                 stagnant,
                 apiVars, brwVars, nlpVars, loginVars, histVars>>

\* load_cookies with no try around the read and the add_cookies call.
LoadCookiesUncaught(a) ==
  [returns |-> a = "valid", raises |-> a \in {"malformed", "rejected"}]

\* load_cookies(context, "cookies.json"): True after add_cookies succeeded;
\* a missing file, and any exception of open, json.load or add_cookies
\* (caught by "except Exception"), end in "return False".
LoadCookies(a) ==
  [returns |-> a = "valid", raises |-> FALSE]

\* if self.load_cookies(context, "cookies.json"): ... else: ...
RestoreSession(a) ==
  /\ s_pc = "cookies"
  /\ artifact' = a
  /\ restored' = (~LoadCookies(a).raises /\ LoadCookies(a).returns)
  /\ raising' = LoadCookies(a).raises
  /\ fault' = IF LoadCookies(a).raises THEN "load_cookies" ELSE fault
  /\ s_pc' = IF LoadCookies(a).raises THEN "raised" ELSE "page"
  /\ UNCHANGED <<max_reviews, business_name, reviews_data, processed_ids,
                 last_count, retries, elements, idx, result, block_of,
                 stagnant, browser,
                 apiVars, nlpVars, loginVars, histVars>>

\* page = context.new_page()
NewPage ==
  /\ s_pc = "page"
  /\ s_pc' = "goto"
  /\ UNCHANGED <<max_reviews, business_name, reviews_data, processed_ids,
                 last_count, retries, elements, idx, result, block_of,
                 stagnant,
                 apiVars, brwVars, nlpVars, loginVars, histVars>>

\* The try block up to the wait for the review container: page.goto and
\* _extract_business_name (max_reviews is the one given to __init__).
StartScrape(limit, bn) ==
  /\ s_pc = "goto"
  /\ max_reviews' = limit
  /\ business_name' = bn
  /\ s_pc' = "wait_container"
  /\ UNCHANGED <<reviews_data, processed_ids, last_count, retries, elements,
                 idx, result, block_of, stagnant,
                 apiVars, brwVars, nlpVars, loginVars, histVars>>

\* A timeout handler that hands out a record instead of the empty list.
ContainerTimeoutResultPartial ==
  <<Record("Cafe Sol", BlockFields("Ana | 5 estrellas | Muy bueno"), 0)>>

\* return [] if return_data else None, for return_data=True.
ContainerTimeoutResult == <<>>

\* page.wait_for_selector raises TimeoutError: return [] (the finally clause
\* closes the browser).
ContainerMissing ==
  /\ s_pc = "wait_container"
  /\ result' = ContainerTimeoutResult
  /\ browser' = "closed"
  /\ s_pc' = "returned"
  /\ container' = "missing"
  /\ UNCHANGED <<max_reviews, business_name, reviews_data, processed_ids,
                 last_count, retries, elements, idx, block_of, stagnant,
                 artifact, restored, fault, raising,
                 apiVars, failed_of, expanded,
                 nlpVars, loginVars>>

\* The container is there: processed_ids = set(); last_count = 0; retries = 0
ContainerFound ==
  /\ s_pc = "wait_container"
  /\ processed_ids' = {}
  /\ last_count' = 0
  /\ retries' = 0
  /\ s_pc' = "while"
  /\ container' = "found"
  /\ UNCHANGED <<max_reviews, business_name, reviews_data, elements, idx,
                 result, block_of, stagnant,
                 apiVars, brwVars, failed_of, expanded,
                 nlpVars, loginVars>>

\* while len(self.reviews_data) < self.max_reviews
WhileHolds(n, limit) == n < limit

\* The loop test holds: elements = page.locator(...).all()
Enumerate(els) ==
  /\ s_pc = "while"
  /\ WhileHolds(Len(reviews_data), max_reviews)
  /\ elements' = els
  /\ idx' = 1
  /\ s_pc' = "for"
  /\ UNCHANGED <<max_reviews, business_name, reviews_data, processed_ids,
                 last_count, retries, result, block_of, stagnant,
                 apiVars, brwVars, nlpVars, loginVars, histVars>>

\* The loop test fails: the loop is left.
LoopExit ==
  /\ s_pc = "while"
  /\ ~WhileHolds(Len(reviews_data), max_reviews)
  /\ s_pc' = "finally"
  /\ UNCHANGED <<max_reviews, business_name, reviews_data, processed_ids,
                 last_count, retries, elements, idx, result, block_of,
                 stagnant,
                 apiVars, brwVars, nlpVars, loginVars, histVars>>

\* The for loop without its break.
ForBreaksNever(n, limit) == FALSE

\* if len(self.reviews_data) >= self.max_reviews: break
ForBreaks(n, limit) == n >= limit

\* The for loop without its seen-set test.
SeenNever(h, ids) == FALSE

\* if content_hash in processed_ids: continue
Seen(h, ids) == h \in ids

\* One pass of the for loop body over elements[idx].
ForStep ==
  /\ s_pc = "for"
  /\ idx <= Len(elements)
  /\ IF ForBreaks(Len(reviews_data), max_reviews)
     THEN /\ s_pc' = "scroll"
          /\ UNCHANGED <<idx, processed_ids, reviews_data, block_of>>
     ELSE /\ s_pc' = "for"
          /\ idx' = idx + 1
          /\ IF elements[idx] = Unreadable
             THEN UNCHANGED <<processed_ids, reviews_data, block_of>>
             ELSE IF Seen(ContentHash(elements[idx]), processed_ids)
             THEN UNCHANGED <<processed_ids, reviews_data, block_of>>
             ELSE /\ processed_ids' =
                       processed_ids \cup {ContentHash(elements[idx])}
                  /\ reviews_data' =
                       Append(reviews_data,
                              Record(business_name,
                                     BlockFields(elements[idx]), 0))
                  /\ block_of' = Append(block_of, elements[idx])
  /\ UNCHANGED <<max_reviews, business_name, last_count, retries, elements,
                 result, stagnant,
                 apiVars, brwVars, nlpVars, loginVars, histVars>>

\* The for loop ran out of elements.
ForEnd ==
  /\ s_pc = "for"
  /\ idx > Len(elements)
  /\ s_pc' = "scroll"
  /\ UNCHANGED <<max_reviews, business_name, reviews_data, processed_ids,
                 last_count, retries, elements, idx, result, block_of,
                 stagnant,
                 apiVars, brwVars, nlpVars, loginVars, histVars>>

\* The stagnation test off by one.
GivesUpLate(r) == r > max_retries

\* if retries >= max_retries: break
GivesUp(r) == r >= max_retries

\* The scroll, the pause and the stagnation test that end an iteration.
EndIteration ==
  /\ s_pc = "scroll"
  /\ IF Len(reviews_data) = last_count
     THEN /\ retries' = retries + 1
          /\ stagnant' = stagnant + 1
          /\ s_pc' = IF GivesUp(retries + 1) THEN "finally" ELSE "while"
          /\ UNCHANGED last_count
     ELSE /\ retries' = 0
          /\ stagnant' = 0
          /\ last_count' = Len(reviews_data)
          /\ s_pc' = "while"
  /\ UNCHANGED <<max_reviews, business_name, reviews_data, processed_ids,
                 elements, idx, result, block_of,
                 apiVars, brwVars, nlpVars, loginVars, histVars>>

\* finally: browser.close(); then "return self.reviews_data", or the
\* exception that left the except clause goes on to the caller.
Return ==
  /\ s_pc = "finally"
  /\ browser' = "closed"
  /\ result' = IF raising THEN result ELSE reviews_data
  /\ s_pc' = IF raising THEN "raised" ELSE "returned"
  /\ UNCHANGED <<max_reviews, business_name, reviews_data, processed_ids,
                 last_count, retries, elements, idx, block_of, stagnant,
                 artifact, restored, fault, raising,
                 apiVars, nlpVars, loginVars, histVars>>

\* One run of scrape(return_data=True) against a page that may show any
\* blocks at each enumeration.
NextScrape ==
  \/ Launch
  \/ NewContext
  \/ \E a \in Artifacts : RestoreSession(a)
  \/ NewPage
  \/ \E limit \in ScrapeLimits, bn \in BusinessNames : StartScrape(limit, bn)
  \/ ContainerMissing
  \/ ContainerFound
  \/ \E els \in Enumerations : Enumerate(els)
  \/ LoopExit
  \/ ForStep
  \/ ForEnd
  \/ EndIteration
  \/ Return

\* scrape() is one sequential control flow: it takes its next step.
SpecScrape == Init /\ [][NextScrape]_vars /\ WF_vars(NextScrape)

\* ------------------------------------------------------------- browser faults
\* browser.new_context(...) or add_init_script raises (the browser process
\* died): the call is before the try, so the exception leaves scrape() with
\* neither the except nor the finally clause run.
NewContextFails ==
  /\ s_pc = "context"
  /\ fault' = "new_context"
  /\ raising' = TRUE
  /\ s_pc' = "raised"
  /\ UNCHANGED <<max_reviews, business_name, reviews_data, processed_ids,
                 last_count, retries, elements, idx, result, block_of,
                 stagnant, browser, artifact, restored,
                 apiVars, nlpVars, loginVars, histVars>>

\* context.new_page() raises: also before the try.
NewPageFails ==
  /\ s_pc = "page"
  /\ fault' = "new_page"
  /\ raising' = TRUE
  /\ s_pc' = "raised"
  /\ UNCHANGED <<max_reviews, business_name, reviews_data, processed_ids,
                 last_count, retries, elements, idx, result, block_of,
                 stagnant, browser, artifact, restored,
                 apiVars, nlpVars, loginVars, histVars>>

\* The calls inside the try that no inner handler covers: page.goto, a
\* wait_for_selector error other than TimeoutError, page.locator(...).all(),
\* and the scroll (scroll_into_view_if_needed, mouse, keyboard; only made
\* when elements is not empty).
CrashSite ==
  CASE s_pc = "goto" -> "goto"
    [] s_pc = "wait_container" -> "wait_for_selector"
    [] s_pc = "while" /\ WhileHolds(Len(reviews_data), max_reviews) -> "all"
    [] s_pc = "scroll" /\ elements # <<>> -> "scroll"
    [] OTHER -> "none"

\* One of them raises: control goes to "except Exception as e".
Crash ==
  /\ CrashSite # "none"
  /\ fault' = CrashSite
  /\ s_pc' = "except"
  /\ UNCHANGED <<max_reviews, business_name, reviews_data, processed_ids,
                 last_count, retries, elements, idx, result, block_of,
                 stagnant, browser, artifact, restored, raising,
                 apiVars, nlpVars, loginVars, histVars>>

\* except: page.screenshot(path="debug/crash_screenshot.png") succeeds.
Snapshot ==
  /\ s_pc = "except"
  /\ s_pc' = "finally"
  /\ UNCHANGED <<max_reviews, business_name, reviews_data, processed_ids,
                 last_count, retries, elements, idx, result, block_of,
                 stagnant,
                 apiVars, brwVars, nlpVars, loginVars, histVars>>

\* except: page.screenshot raises (the page is gone): the new exception
\* leaves the except clause; the finally clause still runs.
SnapshotFails ==
  /\ s_pc = "except"
  /\ raising' = TRUE
  /\ s_pc' = "finally"
  /\ UNCHANGED <<max_reviews, business_name, reviews_data, processed_ids,
                 last_count, retries, elements, idx, result, block_of,
                 stagnant, browser, artifact, restored, fault,
                 apiVars, nlpVars, loginVars, histVars>>

\* One run of scrape(return_data=True) in which browser calls may raise.
NextCrash ==
  \/ NextScrape
  \/ NewContextFails
  \/ NewPageFails
  \/ Crash
  \/ Snapshot
  \/ SnapshotFails

SpecCrash == Init /\ [][NextCrash]_vars /\ WF_vars(NextCrash)

\* ------------------------------------------------------------- field parsing
\* The fields of a record that are parsed from the block, each by its own
\* helper: _extract_username, _extract_rating, _extract_text.
Fields == {"username", "rating", "review_text"}

\* The helpers whose body raises on one block: any one of them, or all.
FieldFailures == {{f} : f \in Fields} \cup {Fields}

\* A rating helper without its except clause.
HelperCatchesButRating(f) == f # "rating"

\* try: ... except: return <default>, in each of the three helpers.
HelperCatches(f) == TRUE

\* What the three helpers return for a block rendering t when the body of
\* those in fails raises: "Unknown", 0 and "" are the except clauses' values.
ParsedFields(t, fails) ==
  [username    |-> IF "username" \in fails THEN "Unknown"
                   ELSE BlockFields(t).username,
   rating      |-> IF "rating" \in fails THEN 0 ELSE BlockFields(t).rating,
   review_text |-> IF "review_text" \in fails THEN ""
                   ELSE BlockFields(t).review_text]

\* One pass of the for loop body over a readable, unseen elements[idx] while
\* the body of the helpers in fails raises. An exception a helper does not
\* catch reaches "except Exception: continue" of the loop body, after
\* processed_ids.add and before the append.
ForStepFailing(fails) ==
  /\ s_pc = "for"
  /\ idx <= Len(elements)
  /\ ~ForBreaks(Len(reviews_data), max_reviews)
  /\ elements[idx] # Unreadable
  /\ ~Seen(ContentHash(elements[idx]), processed_ids)
  /\ processed_ids' = processed_ids \cup {ContentHash(elements[idx])}
  /\ idx' = idx + 1
  /\ IF \A f \in fails : HelperCatches(f)
     THEN /\ reviews_data' =
               Append(reviews_data,
                      Record(business_name,
                             ParsedFields(elements[idx], fails), 0))
          /\ block_of' = Append(block_of, elements[idx])
          /\ failed_of' = failed_of \cup {<<Len(reviews_data) + 1, fails>>}
     ELSE UNCHANGED <<reviews_data, block_of, failed_of>>
  /\ UNCHANGED <<s_pc, max_reviews, business_name, last_count, retries,
                 elements, result, stagnant, container, expanded,
                 apiVars, brwVars, nlpVars, loginVars>>

\* The blocks none of whose fields parses to the default of its helper.
FullBlocks ==
  {t \in BlockTexts : /\ BlockFields(t).username # "Unknown"
                      /\ BlockFields(t).rating # 0
                      /\ BlockFields(t).review_text # ""}

\* One anonymous run of scrape(return_data=True) with a positive limit on a
\* page of such blocks whose container is there, where the helpers may fail
\* on any block.
NextParse ==
  \/ Launch
  \/ NewContext
  \/ RestoreSession("missing")
  \/ NewPage
  \/ \E limit \in 1..MaxLimit : StartScrape(limit, "Cafe Sol")
  \/ ContainerFound
  \/ \E els \in SeqsUpTo(FullBlocks \cup {Unreadable}, MaxVisible) :
       Enumerate(els)
  \/ LoopExit
  \/ ForStep
  \/ \E fails \in FieldFailures : ForStepFailing(fails)
  \/ ForEnd
  \/ EndIteration
  \/ Return

SpecParse == Init /\ [][NextParse]_vars

\* ------------------------------------------------------------- show more
\* The blocks of the page modelled here: one that renders in full and one
\* that renders collapsed until its button is clicked.
PageBlocks == {"Ana | 5 estrellas | Muy bueno"} \cup CollapsedTexts

\* What el.inner_text() gives for each block of the page, given the blocks
\* whose button was clicked.
Rendered(clicked) ==
  {IF t \in clicked THEN Expand(t) ELSE t : t \in PageBlocks}

\* elements = page.locator(...).all() on that page.
EnumerateRendered(els) ==
  /\ els \in SeqsUpTo(Rendered(expanded), MaxVisible)
  /\ Enumerate(els)

\* One pass of the for loop body over an unseen collapsed elements[idx] whose
\* button is visible and whose click succeeds: text_content and content_hash
\* are taken before _extract_text runs; _extract_text clicks the button and
\* reads the span of the expanded text.
ForStepMore ==
  /\ s_pc = "for"
  /\ idx <= Len(elements)
  /\ ~ForBreaks(Len(reviews_data), max_reviews)
  /\ elements[idx] \in CollapsedTexts
  /\ ~Seen(ContentHash(elements[idx]), processed_ids)
  /\ processed_ids' = processed_ids \cup {ContentHash(elements[idx])}
  /\ expanded' = expanded \cup {elements[idx]}
  /\ reviews_data' =
       Append(reviews_data,
              Record(business_name, BlockFields(Expand(elements[idx])), 0))
  /\ block_of' = Append(block_of, elements[idx])
  /\ idx' = idx + 1
  /\ UNCHANGED <<s_pc, max_reviews, business_name, last_count, retries,
                 elements, result, stagnant, container, failed_of,
                 apiVars, brwVars, nlpVars, loginVars>>

\* One anonymous run of scrape(return_data=True) with a positive limit on
\* that page.
NextExpand ==
  \/ Launch
  \/ NewContext
  \/ RestoreSession("missing")
  \/ NewPage
  \/ \E limit \in 1..MaxLimit : StartScrape(limit, "Cafe Sol")
  \/ ContainerFound
  \/ \E els \in SeqsUpTo(PageBlocks \cup {Expand(t) : t \in CollapsedTexts},
                         MaxVisible) : EnumerateRendered(els)
  \/ LoopExit
  \/ ForStep
  \/ ForStepMore
  \/ ForEnd
  \/ EndIteration
  \/ Return

SpecExpand == Init /\ [][NextExpand]_vars

\* ------------------------------------------------------------- endpoint over scrape()
\* scraper = GoogleMapsScraper(url=req.maps_url, max_reviews=req.limit,
\* headless=True); scraper.scrape(return_data=True), step by step, on a
\* deployment without cookies.json.
RunScrape(p) ==
  /\ pc[p] = "scrape"
  /\ \/ Launch
     \/ NewContext
     \/ RestoreSession("missing")
     \/ NewPage
     \/ \E bn \in BusinessNames : StartScrape(req[p].limit, bn)
     \/ ContainerMissing
     \/ ContainerFound
     \/ \E els \in SeqsUpTo(FullBlocks \cup {Unreadable}, MaxVisible) :
          Enumerate(els)
     \/ LoopExit
     \/ ForStep
     \/ ForEnd
     \/ EndIteration
     \/ Return

\* raw_reviews = <what scrape(return_data=True) returned>
ScrapeReturns(p) ==
  /\ pc[p] = "scrape"
  /\ s_pc = "returned"
  /\ raw_reviews' = [raw_reviews EXCEPT ![p] = result]
  /\ scrape_calls' = [scrape_calls EXCEPT ![p] = @ + 1]
  /\ pc' = [pc EXCEPT ![p] = "scraped"]
  /\ UNCHANGED <<table, next_id, now, n_requests, req, cached_entry,
                 final_response, pending, response, had_entry, prior,
                 acquired, table_before, faulted,
                 scrVars, nlpVars, loginVars>>

\* One request against a store that is empty or holds one entry, with the
\* extraction run by scrape() itself.
NextPipeline ==
  \/ \E r \in Requests : n_requests = 0 /\ Begin(1, r)
  \/ CheckCache(1)
  \/ RunScrape(1)
  \/ ScrapeReturns(1)
  \/ Fallback(1)
  \/ \E model \in Models : Enrich(1, model)
  \/ SavePrepare(1)
  \/ Commit(1)
  \/ Finish(1)

SpecPipeline == InitConc /\ [][NextPipeline]_vars

\* ------------------------------------------------------------- nlp.py, by steps
\* Records one analyze() call is given at most.
MaxReviews == 3

\* The parsed fields of the records given to analyze(): a long text, a text
\* of two characters, no text, and a long text with no rating.
NlpFields ==
  { [username |-> "Ana",  rating |-> 50, review_text |-> "Muy bueno"],
    [username |-> "Luis", rating |-> 30, review_text |-> "ok"],
    [username |-> "Eva",  rating |-> 0,  review_text |-> ""],
    [username |-> "Unknown", rating |-> 0, review_text |-> "Pesimo"] }

NlpInputs ==
  {[i \in 1..Len(fs) |-> Record("Cafe Sol", fs[i], 0)] :
     fs \in SeqsUpTo(NlpFields, MaxReviews)}

\* What predict does on a text: one of the three classes, or it raises.
NlpOutcomes ==
  PredictOutcomes \cup
    { [raises |-> FALSE, output |-> "NEG", score |-> 6100],
      [raises |-> FALSE, output |-> "NEU", score |-> 5000] }

\* A classifier behaviour: its outcome on every text it can be given.
NlpModels ==
  [{f.review_text : f \in {g \in NlpFields : g.review_text # ""}}
     -> NlpOutcomes]

\* A call analyze(reviews) on a classifier with some behaviour.
InitNlp ==
  /\ table = {}
  /\ next_id = 1
  /\ acquired = [u \in Urls |-> NoPayload]
  /\ InitWorkers
  /\ InitScraper
  /\ InitLogin
  /\ n_pc = "loop"
  /\ n_reviews \in NlpInputs
  /\ n_model \in NlpModels
  /\ AnalyzerLocals

\* A tally that puts a failed classification in the NEU bucket.
TallyCountsErrors(counts, label) ==
  IF label \in DOMAIN counts THEN [counts EXCEPT ![label] = @ + 1]
  ELSE [counts EXCEPT !.NEU = @ + 1]

\* summary[sentiment] += 1, made for the model's label when it is a key of
\* summary and for the NEU of a short text; the except branch counts nothing.
Tally(counts, label) ==
  IF label \in DOMAIN counts THEN [counts EXCEPT ![label] = @ + 1]
  ELSE counts

\* One pass of "for r in reviews".
AnalyzeStep ==
  /\ n_pc = "loop"
  /\ n_i <= Len(n_reviews)
  /\ LET r == n_reviews[n_i]
     IN /\ total_rating' = IF r.rating # 0 THEN total_rating + r.rating
                           ELSE total_rating
        /\ valid_ratings' = IF r.rating # 0 THEN valid_ratings + 1
                            ELSE valid_ratings
        /\ predict_calls' =
             Append(predict_calls, IF InvokesModel(r.review_text) THEN 1 ELSE 0)
        /\ summary' = Tally(summary, Sentiment(r, n_model).sentiment)
        /\ results' = Append(results, AnalyzedReview(r, n_model))
  /\ n_i' = n_i + 1
  /\ UNCHANGED <<n_pc, n_reviews, n_model, analysis,
                 apiVars, scrVars, loginVars>>

\* avg_rating = ...; return {...}
AnalyzeReturn ==
  /\ n_pc = "loop"
  /\ n_i > Len(n_reviews)
  /\ analysis' =
       [reviews |-> results,
        sentiment_summary |-> summary,
        average_rating |-> IF valid_ratings > 0
                           THEN RoundDiv(10 * total_rating, valid_ratings)
                           ELSE 0,
        total_reviews |-> Len(n_reviews)]
  /\ n_pc' = "returned"
  /\ UNCHANGED <<n_reviews, n_model, n_i, results, summary, total_rating,
                 valid_ratings, predict_calls,
                 apiVars, scrVars, loginVars>>

NextNlp ==
  \/ AnalyzeStep
  \/ AnalyzeReturn

SpecNlp == InitNlp /\ [][NextNlp]_vars

\* ------------------------------------------------------------- login_google
\* What GOOGLE_EMAIL and GOOGLE_PASSWORD can hold: not set, set to the empty
\* string, set to a value.
EmailValues ==
  {Unset, [set |-> TRUE, value |-> ""],
   [set |-> TRUE, value |-> "user@example.com"]}

PasswordValues ==
  {Unset, [set |-> TRUE, value |-> ""], [set |-> TRUE, value |-> "s3cret"]}

\* Python truth of such a value: None and "" are false.
Present(v) == v.set /\ v.value # ""

\* A credentials test that looks at the email only.
HasCredentialsEmailOnly(e, pw) == Present(e)

\* not (not self.email or not self.password)
HasCredentials(e, pw) == Present(e) /\ Present(pw)

\* The page operations login_google makes, by kind.
Navigations == {"goto ServiceLogin"}

FormInteractions ==
  {"fill email", "click identifierNext", "fill password", "click passwordNext"}

Snapshots ==
  {"login_error_redirected.png", "login_step1_loaded.png",
   "login_error_blocked.png", "login_error_no_email.png",
   "login_page_dump.html", "login_step2_email_filled.png",
   "login_step3_after_next.png", "login_error_no_password.png",
   "login_step4_password_filled.png", "login_success.png",
   "login_uncertain.png", "login_exception.png"}

\* A call login_google(page) of a scraper constructed in some environment.
InitLoginCall ==
  /\ table = {}
  /\ next_id = 1
  /\ acquired = [u \in Urls |-> NoPayload]
  /\ InitWorkers
  /\ InitScraper
  /\ InitAnalyzer
  /\ l_pc = "start"
  /\ email \in EmailValues
  /\ password \in PasswordValues
  /\ LoginLocals

\* "return False" / "return True"
LoginReturns(value) ==
  /\ l_result' = value
  /\ l_pc' = "returned"

\* page.screenshot(path=...) comes next, and then the step named.
ThenSnapshot(name, after) ==
  /\ l_snap' = name
  /\ l_after' = after
  /\ l_pc' = "snapshot"

\* if not self.email or not self.password: return False
LoginStart ==
  /\ l_pc = "start"
  /\ IF HasCredentials(email, password)
     THEN l_pc' = "step1" /\ UNCHANGED l_result
     ELSE LoginReturns("False")
  /\ UNCHANGED <<email, password, page_log, l_snap, l_after,
                 l_guard, l_signal, l_lost,
                 apiVars, scrVars, nlpVars>>

\* STEP 1: page.goto(login_url, timeout=60000)
Navigate ==
  /\ l_pc = "step1"
  /\ page_log' = Append(page_log, "goto ServiceLogin")
  /\ l_pc' = "wait_load"
  /\ UNCHANGED <<email, password, l_snap, l_after, l_result,
                 l_guard, l_signal, l_lost,
                 apiVars, scrVars, nlpVars>>

\* page.wait_for_load_state("domcontentloaded"); the redirect check on
\* page.url.
PageLoaded(landed_on_login) ==
  /\ l_pc = "wait_load"
  /\ IF landed_on_login
     THEN ThenSnapshot("login_step1_loaded.png", "check_blocked")
     ELSE ThenSnapshot("login_error_redirected.png", "return False")
  /\ l_guard' = IF landed_on_login THEN l_guard ELSE "redirected"
  /\ UNCHANGED <<email, password, page_log, l_result,
                 l_signal, l_lost,
                 apiVars, scrVars, nlpVars>>

\* The "browser not secure" check.
CheckBlocked(blocked) ==
  /\ l_pc = "check_blocked"
  /\ IF blocked
     THEN ThenSnapshot("login_error_blocked.png", "return False")
     ELSE l_pc' = "step2" /\ UNCHANGED <<l_snap, l_after>>
  /\ l_guard' = IF blocked THEN "blocked" ELSE l_guard
  /\ UNCHANGED <<email, password, page_log, l_result,
                 l_signal, l_lost,
                 apiVars, scrVars, nlpVars>>

\* STEP 2: the email input; email_input.fill(self.email).
EnterEmail(visible) ==
  /\ l_pc = "step2"
  /\ IF visible
     THEN /\ page_log' = Append(page_log, "fill email")
          /\ ThenSnapshot("login_step2_email_filled.png", "step3")
     ELSE /\ ThenSnapshot("login_error_no_email.png", "dump")
          /\ UNCHANGED page_log
  /\ l_guard' = IF visible THEN l_guard ELSE "no email input"
  /\ UNCHANGED <<email, password, l_result, l_signal, l_lost,
                 apiVars, scrVars, nlpVars>>

\* with open(".../login_page_dump.html", "w") as f: f.write(page.content())
DumpPage(ok) ==
  /\ l_pc = "dump"
  /\ IF ok
     THEN /\ page_log' = Append(page_log, "login_page_dump.html")
          /\ LoginReturns("False")
     ELSE /\ l_pc' = "except"
          /\ UNCHANGED <<page_log, l_result>>
  /\ l_lost' = IF ok THEN l_lost ELSE "login_page_dump.html"
  /\ UNCHANGED <<email, password, l_snap, l_after,
                 l_guard, l_signal,
                 apiVars, scrVars, nlpVars>>

\* STEP 3: the Next button; next_btn.click().
ClickNext(visible) ==
  /\ l_pc = "step3"
  /\ IF visible
     THEN /\ page_log' = Append(page_log, "click identifierNext")
          /\ l_pc' = "wait_idle"
          /\ UNCHANGED l_result
     ELSE /\ LoginReturns("False")
          /\ UNCHANGED page_log
  /\ l_guard' = IF visible THEN l_guard ELSE "no Next button"
  /\ UNCHANGED <<email, password, l_snap, l_after,
                 l_signal, l_lost,
                 apiVars, scrVars, nlpVars>>

\* page.wait_for_load_state("networkidle"), then the step 3 screenshot.
AfterNext ==
  /\ l_pc = "wait_idle"
  /\ ThenSnapshot("login_step3_after_next.png", "check_account")
  /\ UNCHANGED <<email, password, page_log, l_result,
                 l_guard, l_signal, l_lost,
                 apiVars, scrVars, nlpVars>>

\* The "Couldn't find your Google Account" check.
CheckAccount(recognized) ==
  /\ l_pc = "check_account"
  /\ IF recognized
     THEN l_pc' = "step4" /\ UNCHANGED l_result
     ELSE LoginReturns("False")
  /\ l_guard' = IF recognized THEN l_guard ELSE "account not recognized"
  /\ UNCHANGED <<email, password, page_log, l_snap, l_after,
                 l_signal, l_lost,
                 apiVars, scrVars, nlpVars>>

\* STEP 4: wait for the password field; pwd_input.fill(self.password).
EnterPassword(appeared) ==
  /\ l_pc = "step4"
  /\ IF appeared
     THEN /\ page_log' = Append(page_log, "fill password")
          /\ ThenSnapshot("login_step4_password_filled.png", "step5")
     ELSE /\ ThenSnapshot("login_error_no_password.png", "return False")
          /\ UNCHANGED page_log
  /\ l_guard' = IF appeared THEN l_guard ELSE "password field timeout"
  /\ UNCHANGED <<email, password, l_result, l_signal, l_lost,
                 apiVars, scrVars, nlpVars>>

\* STEP 5: pwd_next.click()
ClickPasswordNext ==
  /\ l_pc = "step5"
  /\ page_log' = Append(page_log, "click passwordNext")
  /\ l_pc' = "step6"
  /\ UNCHANGED <<email, password, l_snap, l_after, l_result,
                 l_guard, l_signal, l_lost,
                 apiVars, scrVars, nlpVars>>

\* STEP 6: page.wait_for_url(...) reaches the account page, or times out.
WaitAuthenticated(redirected) ==
  /\ l_pc = "step6"
  /\ IF redirected
     THEN ThenSnapshot("login_success.png", "return True")
     ELSE ThenSnapshot("login_uncertain.png", "check_wrong_password")
  /\ l_signal' = IF redirected THEN "authenticated" ELSE "timeout"
  /\ UNCHANGED <<email, password, page_log, l_result,
                 l_guard, l_lost,
                 apiVars, scrVars, nlpVars>>

\* if page.locator('text=Wrong password').is_visible(): return False
\* return True
CheckWrongPassword(wrong) ==
  /\ l_pc = "check_wrong_password"
  /\ LoginReturns(IF wrong THEN "False" ELSE "True")
  /\ l_signal' = IF wrong THEN "wrong password" ELSE "no wrong password"
  /\ UNCHANGED <<email, password, page_log, l_snap, l_after,
                 l_guard, l_lost,
                 apiVars, scrVars, nlpVars>>

\* A page.screenshot of the try block: taken, and the flow goes on; or it
\* raises, and control goes to the except clause.
Capture(ok) ==
  /\ l_pc = "snapshot"
  /\ IF ok
     THEN /\ page_log' = Append(page_log, l_snap)
          /\ IF l_after = "return False" THEN LoginReturns("False")
             ELSE IF l_after = "return True" THEN LoginReturns("True")
             ELSE l_pc' = l_after /\ UNCHANGED l_result
     ELSE /\ l_pc' = "except"
          /\ UNCHANGED <<page_log, l_result>>
  /\ l_lost' = IF ok THEN l_lost ELSE l_snap
  /\ UNCHANGED <<email, password, l_snap, l_after,
                 l_guard, l_signal,
                 apiVars, scrVars, nlpVars>>

\* A page call of the try block other than a screenshot raises (goto times
\* out, the page is closed): control goes to the except clause.
PageRaises ==
  /\ l_pc \in {"step1", "wait_load", "check_blocked", "step2", "step3",
               "wait_idle", "check_account", "step4", "step5", "step6",
               "check_wrong_password"}
  /\ l_pc' = "except"
  /\ UNCHANGED <<email, password, page_log, l_snap, l_after, l_result,
                 l_guard, l_signal, l_lost,
                 apiVars, scrVars, nlpVars>>

\* except Exception: page.screenshot(".../login_exception.png"); return False
\* When that screenshot raises, the exception leaves login_google.
HandleException(ok) ==
  /\ l_pc = "except"
  /\ IF ok
     THEN /\ page_log' = Append(page_log, "login_exception.png")
          /\ LoginReturns("False")
     ELSE /\ l_pc' = "raised"
          /\ UNCHANGED <<page_log, l_result>>
  /\ l_lost' = IF ok THEN l_lost ELSE "login_exception.png"
  /\ UNCHANGED <<email, password, l_snap, l_after,
                 l_guard, l_signal,
                 apiVars, scrVars, nlpVars>>

NextLogin ==
  \/ LoginStart
  \/ Navigate
  \/ \E landed_on_login \in BOOLEAN : PageLoaded(landed_on_login)
  \/ \E blocked \in BOOLEAN : CheckBlocked(blocked)
  \/ \E visible \in BOOLEAN : EnterEmail(visible)
  \/ \E ok \in BOOLEAN : DumpPage(ok)
  \/ \E visible \in BOOLEAN : ClickNext(visible)
  \/ AfterNext
  \/ \E recognized \in BOOLEAN : CheckAccount(recognized)
  \/ \E appeared \in BOOLEAN : EnterPassword(appeared)
  \/ ClickPasswordNext
  \/ \E redirected \in BOOLEAN : WaitAuthenticated(redirected)
  \/ \E wrong \in BOOLEAN : CheckWrongPassword(wrong)
  \/ \E ok \in BOOLEAN : Capture(ok)
  \/ PageRaises
  \/ \E ok \in BOOLEAN : HandleException(ok)

SpecLogin == InitLoginCall /\ [][NextLogin]_vars

\* ------------------------------------------------------------- properties
\* The key of the request worker p is serving.
KeyOf(p) == Md5(req[p].maps_url)

\* The payload stored for key h in tbl (when there is a row for it).
StoredPayload(tbl, h) == (CHOOSE r \in tbl : r.url_hash = h).analysis_json

\* body is payload with the cached flag set to flag and nothing else changed.
SamePayload(body, payload, extra) ==
  /\ DOMAIN body = DOMAIN payload \cup extra
  /\ \A k \in DOMAIN payload \ {"cached"} : body[k] = payload[k]

Returned(p) == pc[p] = "done"

\* C1: a request with forceUpdate = false whose key had a row when it began
\* makes no scraper.scrape call and returns the stored payload with
\* cached = true.
C1_CacheShortCircuitsExtraction ==
  \A p \in Procs :
    (Returned(p) /\ ~req[p].forceUpdate /\ had_entry[p])
      => /\ scrape_calls[p] = 0
         /\ response[p].status = 200
         /\ response[p].body.cached = TRUE
         /\ SamePayload(response[p].body,
                        StoredPayload(table_before[p], KeyOf(p)), {})

C1_Witness ==
  \E p \in Procs :
    /\ Returned(p) /\ ~req[p].forceUpdate /\ had_entry[p]
    /\ response[p].status = 200 /\ scrape_calls[p] = 0

\* C2: a request whose extraction returned no record while the table holds a
\* row for its key returns 200 with cached = true, fallback_mode = true and
\* the stored payload otherwise unchanged.
C2_SameKeyFallback ==
  \A p \in Procs :
    (Returned(p) /\ scrape_calls[p] = 1 /\ raw_reviews[p] = <<>>
       /\ RowsFor(table, KeyOf(p)) # {})
      => /\ response[p].status = 200
         /\ "fallback_mode" \in DOMAIN response[p].body
         /\ response[p].body.cached = TRUE
         /\ response[p].body.fallback_mode = TRUE
         /\ SamePayload(response[p].body, StoredPayload(table, KeyOf(p)),
                        {"fallback_mode"})

C2_Witness ==
  \E p \in Procs :
    /\ Returned(p) /\ scrape_calls[p] = 1 /\ raw_reviews[p] = <<>>
    /\ RowsFor(table, KeyOf(p)) # {}
    /\ response[p].status = 200

C4_FreshCacheFallbackScenario ==
  \A p \in Procs :
    Returned(p) =>
      /\ (scrape_calls[p] = 1 /\ Len(raw_reviews[p]) >= 1)
           => /\ response[p].status = 200
              /\ response[p].body.cached = FALSE
              /\ response[p].body.total_reviews = Len(raw_reviews[p])
              /\ Cardinality(RowsFor(table, KeyOf(p))) = 1
      /\ (~req[p].forceUpdate /\ prior[p] # NoPayload)
           => /\ scrape_calls[p] = 0
              /\ response[p] =
                   [status |-> 200, body |-> [prior[p] EXCEPT !.cached = TRUE]]
      /\ (req[p].forceUpdate /\ raw_reviews[p] = <<>> /\ prior[p] # NoPayload)
           => /\ scrape_calls[p] = 1
              /\ response[p] =
                   [status |-> 200,
                    body |-> Merge([prior[p] EXCEPT !.cached = TRUE],
                                   [fallback_mode |-> TRUE])]

C4_Witness ==
  \E p \in Procs :
    /\ Returned(p) /\ n_requests = 3
    /\ req[p].forceUpdate /\ raw_reviews[p] = <<>> /\ scrape_calls[p] = 1
    /\ prior[p] # NoPayload /\ prior[p].total_reviews = 2
    /\ "fallback_mode" \in DOMAIN response[p].body

\* C5 as claimed: for every value of max_reviews, in every state of a
\* scrape() run, and in what it returns, the number of accumulated records
\* is at most max_reviews.
C5_NeverMoreThanAnyLimit ==
  /\ Len(reviews_data) <= max_reviews
  /\ Len(result) <= max_reviews

\* C5 as amended: the number of accumulated records, and of returned ones,
\* is at most max_reviews when max_reviews >= 0 and is zero when it is
\* negative.
C5_NeverMoreThanLimit ==
  /\ max_reviews >= 0
       => Len(reviews_data) <= max_reviews /\ Len(result) <= max_reviews
  /\ max_reviews < 0 => reviews_data = <<>> /\ result = <<>>

C5_Witness ==
  /\ s_pc = "scroll"
  /\ idx <= Len(elements)
  /\ elements[idx] \in BlockTexts
  /\ ContentHash(elements[idx]) \notin processed_ids
  /\ Len(reviews_data) = max_reviews

\* C6: the scroll loop terminates whatever the page shows: no iteration
\* starts once the count has reached max_reviews or has not grown for
\* max_retries iterations in a row, no sixth such iteration runs, and
\* scrape() returns.
C6_ScrollLoopTerminates ==
  /\ [](stagnant <= max_retries)
  /\ [](s_pc \in {"for", "scroll"}
          => last_count < max_reviews /\ stagnant < max_retries)
  /\ <>(s_pc = "returned")

C6_Witness ==
  /\ s_pc = "returned"
  /\ stagnant = max_retries
  /\ Len(result) >= 1
  /\ Len(result) < max_reviews

\* C7: every rendered text whose hash is in processed_ids has exactly one
\* record in reviews_data, and no text has more than one, however often the
\* block is enumerated.
RecordsOf(t) == {i \in 1..Len(block_of) : block_of[i] = t}

C7_OneRecordPerRenderedText ==
  /\ Len(block_of) = Len(reviews_data)
  /\ \A i \in 1..Len(reviews_data) :
       reviews_data[i] = Record(business_name, BlockFields(block_of[i]), 0)
  /\ \A t \in BlockTexts :
       /\ Cardinality(RecordsOf(t)) <= 1
       /\ Cardinality(RecordsOf(t)) = 1 <=> ContentHash(t) \in processed_ids

C7_Witness ==
  /\ s_pc = "scroll"
  /\ Len(elements) >= 1
  /\ idx > Len(elements)
  /\ \A k \in 1..Len(elements) :
       elements[k] \in BlockTexts /\ RecordsOf(elements[k]) # {}
  /\ Len(reviews_data) = last_count
  /\ Len(reviews_data) < max_reviews

\* C8: the table never holds two rows with the same url_hash.
C8_AtMostOneEntryPerKey ==
  \A r \in table, s \in table : r.url_hash = s.url_hash => r = s

C8_Witness ==
  /\ \E p \in Procs : Returned(p) /\ faulted[p]
  /\ Cardinality(table) = 2

\* C9 as claimed: no write of save_analysis fails, and after every commit
\* the table holds exactly one row for the key, with the payload of the
\* request that committed last.
C9_AtomicUpsertLastWriterWins ==
  /\ \A p \in Procs : ~faulted[p]
  /\ \A u \in Urls :
       acquired[u] # NoPayload
         => /\ Cardinality(RowsFor(table, Md5(u))) = 1
            /\ StoredPayload(table, Md5(u)) = acquired[u]

\* C10 as claimed: once extraction returned a record and enrichment
\* completed, the request returns final_response with status 200 whatever
\* step of save_analysis fails, and a failed write leaves the table as it
\* was when the request began.
C10_PersistFailureKeepsResult ==
  \A p \in Procs :
    (Returned(p) /\ Len(raw_reviews[p]) >= 1 /\ final_response[p] # NoPayload)
      => /\ response[p] = [status |-> 200, body |-> final_response[p]]
         /\ faulted[p] => table = table_before[p]

\* C11: after save_analysis(key, payload) commits, get_cached_analysis(key)
\* returns a row whose payload equals the one saved; when the key already had
\* a row, the save keeps that row (same id, same created_at), replaces its
\* payload with the new one, and leaves updated_at not earlier than before.
C11_StoreRoundTrip ==
  \A p \in Procs :
    (Returned(p) /\ final_response[p] # NoPayload)
      => LET row == GetCachedAnalysis(table, KeyOf(p))
             old == GetCachedAnalysis(table_before[p], KeyOf(p))
         IN /\ Truthy(row)
            /\ row.analysis_json = final_response[p]
            /\ Truthy(old)
                 => /\ row.id = old.id
                    /\ row.created_at = old.created_at
                    /\ row.updated_at >= old.updated_at
                    /\ Cardinality(table) = Cardinality(table_before[p])

C11_Witness ==
  \E p \in Procs :
    /\ Returned(p) /\ final_response[p] # NoPayload
    /\ LET row == GetCachedAnalysis(table, KeyOf(p))
           old == GetCachedAnalysis(table_before[p], KeyOf(p))
       IN /\ Truthy(old)
          /\ old.analysis_json # final_response[p]
          /\ row.analysis_json = final_response[p]
          /\ row.created_at < row.updated_at
          /\ old.updated_at < row.updated_at

\* C12 as claimed: every failure analyze_reviews returns to the caller is
\* the not-found signal; a fault inside extraction, enrichment or the store
\* never reaches the caller as another failure or with internal detail.
C12_OnlyNotFoundSurfaces ==
  \A p \in Procs :
    (Returned(p) /\ response[p].status # 200)
      => response[p] = NotFoundResponse

\* C13: when cookies.json is missing, malformed or refused by the browser
\* context, load_cookies returns False and raises nothing, the step after it
\* is always page creation, and scrape() goes on to navigate.
C13_SessionRestoreNeverAborts ==
  /\ [](artifact \in {"missing", "malformed", "rejected"}
          => ~restored /\ ~raising /\ s_pc # "raised")
  /\ [][s_pc = "cookies" => s_pc' = "page"]_vars
  /\ (artifact \in {"missing", "malformed", "rejected"} /\ s_pc = "page")
       ~> (s_pc = "wait_container")

C13_Witness ==
  /\ artifact = "rejected"
  /\ ~restored
  /\ s_pc = "scroll"
  /\ Len(reviews_data) >= 1

C15_CrashReturnsPartialResult ==
  (s_pc \in {"returned", "raised"}
     /\ fault \in {"goto", "wait_for_selector", "all", "scroll"})
    => /\ s_pc = "returned"
       /\ ~raising
       /\ result = reviews_data

\* The URL a request URL denotes once incidental formatting (here the
\* trailing slash) is removed.
Canonical(u) ==
  CASE u = "https://maps.app.goo.gl/a"  -> "https://maps.app.goo.gl/a"
    [] u = "https://maps.app.goo.gl/a/" -> "https://maps.app.goo.gl/a"

\* C16 as claimed: two request URLs that differ only in incidental formatting
\* have the same key, so a request with forceUpdate = false finds the result
\* stored under the other form and is served from the cache.
C16_FormattingVariantsShareKey ==
  \A p \in Procs :
    (Returned(p) /\ ~req[p].forceUpdate
       /\ \E r \in table_before[p] :
            Canonical(r.maps_url) = Canonical(req[p].maps_url))
      => /\ \A r \in table_before[p] :
              Canonical(r.maps_url) = Canonical(req[p].maps_url)
                => r.url_hash = KeyOf(p)
         /\ scrape_calls[p] = 0
         /\ response[p].body.cached = TRUE

\* C17: a fresh result carries the business_name of the first extracted
\* record and the row saved for the key carries the same name; a cache or
\* fallback result carries the business_name of the key's row and leaves the
\* row as it was.
C17_BusinessNameResolution ==
  \A p \in Procs :
    (Returned(p) /\ response[p].status = 200)
      => LET row == GetCachedAnalysis(table, KeyOf(p))
         IN IF final_response[p] # NoPayload
            THEN /\ response[p].body.business_name
                      = raw_reviews[p][1].business_name
                 /\ row.business_name = raw_reviews[p][1].business_name
                 /\ row.analysis_json.business_name
                      = raw_reviews[p][1].business_name
            ELSE /\ response[p].body.business_name = row.business_name
                 /\ row = GetCachedAnalysis(table_before[p], KeyOf(p))

C17_Witness ==
  \E p \in Procs :
    /\ Returned(p) /\ final_response[p] # NoPayload
    /\ Len(raw_reviews[p]) = 2
    /\ had_entry[p]
    /\ GetCachedAnalysis(table_before[p], KeyOf(p)).business_name = "Cafe Sol"
    /\ response[p].body.business_name = "Unknown Business"
    /\ GetCachedAnalysis(table, KeyOf(p)).business_name = "Unknown Business"

\* C18: in analyze(), every record whose text is empty or at most two
\* characters long is labelled NEU with confidence 1.0 and predict is not
\* called for it; predict is called exactly once for every record with a
\* longer text; every record is processed.
C18_ShortTextsSkipTheModel ==
  /\ Len(predict_calls) = Len(results)
  /\ n_pc = "returned" => Len(results) = Len(n_reviews)
  /\ \A i \in 1..Len(results) :
       LET t == n_reviews[i].review_text
       IN /\ Len(t) <= 2
               => /\ results[i].sentiment = "NEU"
                  /\ results[i].confidence = 10000
                  /\ predict_calls[i] = 0
          /\ Len(t) > 2 => predict_calls[i] = 1

C18_Witness ==
  /\ n_pc = "returned"
  /\ Len(n_reviews) = 3
  /\ n_reviews[1].review_text = "ok"
  /\ n_reviews[2].review_text = ""
  /\ n_reviews[3].review_text = "Muy bueno"
  /\ predict_calls = <<0, 0, 1>>

\* The records of what analyze() returned that are labelled ERROR.
Errors == {i \in 1..Len(analysis.reviews) : analysis.reviews[i].sentiment = "ERROR"}

\* C19: a record whose classification raises is labelled ERROR with
\* confidence 0.0, the records after it are still processed, and when
\* analyze() returns POS + NEG + NEU is the number of records not labelled
\* ERROR and total_reviews is the number of input records.
C19_ErrorsCountedApart ==
  /\ \A i \in 1..Len(results) :
       (InvokesModel(n_reviews[i].review_text)
          /\ n_model[n_reviews[i].review_text].raises)
         <=> (results[i].sentiment = "ERROR" /\ results[i].confidence = 0)
  /\ n_pc = "returned"
       => /\ Len(analysis.reviews) = Len(n_reviews)
          /\ analysis.total_reviews = Len(n_reviews)
          /\ analysis.sentiment_summary.POS + analysis.sentiment_summary.NEG
               + analysis.sentiment_summary.NEU
               = Len(n_reviews) - Cardinality(Errors)

C19_Witness ==
  /\ n_pc = "returned"
  /\ Len(n_reviews) = 3
  /\ analysis.reviews[1].sentiment = "ERROR"
  /\ analysis.reviews[2].sentiment = "NEG"
  /\ analysis.reviews[3].sentiment = "NEU"
  /\ analysis.sentiment_summary = [POS |-> 0, NEG |-> 1, NEU |-> 1]

\* C20: when the email or the password is not configured, login_google
\* returns False at once: nothing else is returned, and no navigation, form
\* interaction or snapshot is ever performed on the page.
C20_NoCredentialsShortCircuits ==
  (l_pc # "idle"
     /\ (~email.set \/ email.value = "" \/ ~password.set \/ password.value = ""))
    => /\ l_pc \in {"start", "returned"}
       /\ l_pc = "returned" => l_result = "False"
       /\ \A i \in 1..Len(page_log) :
            page_log[i] \notin Navigations \cup FormInteractions \cup Snapshots
       /\ page_log = <<>>

C20_Witness ==
  /\ l_pc = "returned"
  /\ Present(email)
  /\ ~password.set
  /\ l_result = "False"
  /\ page_log = <<>>

\* The form interactions of an attempt, in the order they were performed.
IsFormInteraction(e) == e \in FormInteractions
FormSteps == SelectSeq(page_log, IsFormInteraction)

\* C21: the login flow advances only in the order START, NAVIGATED_TO_LOGIN,
\* EMAIL_SUBMITTED, PASSWORD_SUBMITTED, AUTHENTICATED: success is returned
\* only after the email and then the password were submitted, in that order;
\* once a guard has failed (redirect away from the login page, blocked
\* browser, email input or Next button missing, account not recognized,
\* password field timeout) the attempt is terminal: no later form step (in
\* particular no password entry) is performed, and the outcome is the failure
\* value, never a raised exception.
C21_OrderedFlowTerminalGuards ==
  /\ (l_pc = "returned" /\ l_result = "True")
       => FormSteps = <<"fill email", "click identifierNext",
                        "fill password", "click passwordNext">>
  /\ l_guard # "none"
       => /\ FormSteps \in {<<>>, <<"fill email">>,
                            <<"fill email", "click identifierNext">>}
          /\ l_pc \in {"snapshot", "dump", "returned"}
          /\ l_pc = "returned" => l_result = "False"

\* The part of C21 that the code keeps: the order of the form steps, and no
\* form step after a failed guard.
C21_OrderKept ==
  /\ (l_pc = "returned" /\ l_result = "True")
       => FormSteps = <<"fill email", "click identifierNext",
                        "fill password", "click passwordNext">>
  /\ l_guard # "none"
       => /\ FormSteps \in {<<>>, <<"fill email">>,
                            <<"fill email", "click identifierNext">>}
          /\ l_pc \notin {"step1", "wait_load", "check_blocked", "step2",
                          "step3", "wait_idle", "check_account", "step4",
                          "step5", "step6", "check_wrong_password"}
          /\ l_result # "True"

\* C22: after the password was submitted, login_google returns failure
\* whenever the wrong-password signal is present, success when the
\* authenticated URL pattern is reached, and tentative success when the wait
\* times out and no wrong-password signal is shown; it never returns success
\* while the wrong-password signal is visible.
C22_PasswordOutcome ==
  /\ l_result = "True" => l_signal # "wrong password"
  /\ l_pc \in {"returned", "raised"}
       => /\ l_signal = "wrong password"
               => l_pc = "returned" /\ l_result = "False"
          /\ l_signal \in {"authenticated", "no wrong password"}
               => l_pc = "returned" /\ l_result = "True"

\* The part of C22 that the code keeps: no success while the wrong-password
\* signal is shown, and success only after one of the two success signals.
C22_NoSuccessOnWrongPassword ==
  /\ l_result = "True" => l_signal \in {"authenticated", "no wrong password"}
  /\ (l_pc = "returned" /\ l_signal = "wrong password") => l_result = "False"

\* C23: snapshots are best-effort and never block the flow: when the capture
\* of a snapshot (page.screenshot or the HTML dump) fails, control does not
\* leave the flow (it neither enters the except clause nor raises out of
\* login_google), and the outcome is the one the attempt has when the capture
\* succeeds.
C23_SnapshotsNeverBlock ==
  /\ l_pc # "raised"
  /\ l_pc = "except" => l_lost = "none"
  /\ (l_pc = "returned" /\ l_lost = "login_success.png") => l_result = "True"

\* The helpers that failed while record i was parsed.
FailsAt(i) ==
  IF \E e \in failed_of : e[1] = i
  THEN (CHOOSE e \in failed_of : e[1] = i)[2]
  ELSE {}

\* C24: field extraction is best-effort, each field on its own: a failure
\* while parsing a field of an unseen readable block does not discard the
\* record. Every block marked as seen has its record, and the record has the
\* default ("Unknown", 0, "") in each field whose parsing failed and the
\* parsed value in every other field.
C24_FieldFailureKeepsRecord ==
  /\ Cardinality(processed_ids) = Len(reviews_data)
  /\ Len(block_of) = Len(reviews_data)
  /\ \A i \in 1..Len(reviews_data) :
       /\ ContentHash(block_of[i]) \in processed_ids
       /\ reviews_data[i].business_name = business_name
       /\ reviews_data[i].username =
            (IF "username" \in FailsAt(i) THEN "Unknown"
             ELSE BlockFields(block_of[i]).username)
       /\ reviews_data[i].rating =
            (IF "rating" \in FailsAt(i) THEN 0
             ELSE BlockFields(block_of[i]).rating)
       /\ reviews_data[i].review_text =
            (IF "review_text" \in FailsAt(i) THEN ""
             ELSE BlockFields(block_of[i]).review_text)

C24_Witness ==
  /\ s_pc = "returned"
  /\ Len(result) = 2
  /\ block_of = <<"Ana | 5 estrellas | Muy bueno", "Luis | 3 estrellas | ok">>
  /\ FailsAt(1) = {"rating"}
  /\ FailsAt(2) = {"username"}
  /\ result[1].username = "Ana" /\ result[1].rating = 0
  /\ result[1].review_text = "Muy bueno"
  /\ result[2].username = "Unknown" /\ result[2].rating = 30
  /\ result[2].review_text = "ok"

\* C25: when the review container never materializes, scrape(return_data=
\* True) returns the empty sequence without entering the scroll loop and
\* without raising (the browser is closed), and analyze_reviews then takes
\* the fallback branch (the stored entry marked as fallback, or the 404): it
\* neither enriches nor persists anything.
C25_NoContainerMeansFallback ==
  container = "missing"
    => /\ s_pc = "returned"
       /\ result = <<>>
       /\ reviews_data = <<>> /\ elements = <<>> /\ processed_ids = {}
       /\ browser = "closed"
       /\ pc[1] \notin {"save", "commit"}
       /\ final_response[1] = NoPayload
       /\ pending[1] = NoPending
       /\ pc[1] # "idle" => table = table_before[1]
       /\ pc[1] \in {"scraped", "done"} => raw_reviews[1] = <<>>
       /\ pc[1] = "done"
            => \/ /\ response[1].status = 200
                  /\ response[1].body.fallback_mode
                  /\ response[1] =
                       FallbackResponse(
                         GetCachedAnalysis(table, KeyOf(1)))
               \/ /\ response[1] = NotFoundResponse
                  /\ RowsFor(table, KeyOf(1)) = {}

C25_Witness ==
  /\ container = "missing"
  /\ pc[1] = "done"
  /\ req[1].forceUpdate
  /\ response[1].status = 200
  /\ response[1].body.fallback_mode
  /\ scrape_calls[1] = 1

C25_WitnessNotFound ==
  /\ container = "missing"
  /\ pc[1] = "done"
  /\ response[1] = NotFoundResponse

\* The keys that have an entry in tbl.
KeysOf(tbl) == {r.url_hash : r \in tbl}

\* C26: only a fresh successful acquisition writes the store. While a
\* request is served the store differs from what it was when the request
\* began only once the request has extracted records, enriched them and
\* committed; a request that ends as a cache hit, a fallback or the 404
\* leaves every entry (key set, payloads, created_at, updated_at) as it was;
\* no request deletes an entry, so the set of keys never shrinks, and a write
\* touches the entry of the request's own key only.
C26_OnlyFreshAcquisitionWrites ==
  \A p \in Procs :
    pc[p] # "idle"
      => /\ KeysOf(table_before[p]) \subseteq KeysOf(table)
         /\ Cardinality(table_before[p]) <= Cardinality(table)
         /\ \A r \in table_before[p] :
              r.url_hash # KeyOf(p) => r \in table
         /\ table # table_before[p]
              => /\ Returned(p)
                 /\ scrape_calls[p] = 1
                 /\ raw_reviews[p] # <<>>
                 /\ response[p] = [status |-> 200, body |-> final_response[p]]
         /\ (Returned(p) /\ final_response[p] = NoPayload)
              => table = table_before[p]

C26_Witness ==
  \E p \in Procs :
    /\ Returned(p)
    /\ n_requests = 3
    /\ Cardinality(table) = 2
    /\ raw_reviews[p] = <<>> /\ scrape_calls[p] = 1
    /\ response[p].status = 200
    /\ response[p].body.fallback_mode
    /\ table = table_before[p]

\* body is payload with at most the cached flag changed and the
\* fallback_mode flag added.
Carries(body, payload) ==
  SamePayload(body, payload, DOMAIN body \ DOMAIN payload)

\* C27: no cross-key leakage. Every payload returned with a 200 for a URL was
\* produced by an extraction run for a URL with the same key (here: it is the
\* latest fresh result acquired under that key, at most with the cached and
\* fallback_mode flags set), and it is never the payload acquired or stored
\* under a different key.
C27_NoCrossKeyLeakage ==
  \A p \in Procs :
    (Returned(p) /\ response[p].status = 200)
      => /\ \E u \in Urls :
              /\ Md5(u) = KeyOf(p)
              /\ acquired[u] # NoPayload
              /\ Carries(response[p].body, acquired[u])
         /\ \A v \in Urls :
              (Md5(v) # KeyOf(p) /\ acquired[v] # NoPayload)
                => ~Carries(response[p].body, acquired[v])
         /\ \A r \in table :
              r.url_hash # KeyOf(p)
                => ~Carries(response[p].body, r.analysis_json)

C27_Witness ==
  \E p \in Procs :
    /\ Returned(p)
    /\ response[p].status = 200
    /\ response[p].body.cached
    /\ Cardinality(KeysOf(table)) = 2
    /\ \A u \in Urls : acquired[u] # NoPayload
    /\ Carries(response[p].body, acquired[req[p].maps_url])
    /\ \E r \in table : r.url_hash # KeyOf(p)

\* The review block a rendered text belongs to: a collapsed text and its
\* expanded form are the same block.
BlockId(t) ==
  IF \E c \in CollapsedTexts : Expand(c) = t
  THEN CHOOSE c \in CollapsedTexts : Expand(c) = t
  ELSE t

====
